---- MODULE Spec2Model ----
(***************************************************************************)
(* The five browser verification scripts of pachinball                     *)
(* (verification/verify_slot.py, verify_game.py, verify_lcd.py,            *)
(* verify_reels.py, verify_firewall_breach.py) as one state machine.       *)
(* A behaviour is one run of one script.  Every Playwright call that can   *)
(* raise takes its outcome from the environment (ok \in BOOLEAN); the      *)
(* try / except / finally structure of each script decides where control   *)
(* goes next.  time.sleep calls cannot raise and are folded into the       *)
(* action of the statement they follow.                                    *)
(***************************************************************************)
EXTENDS Integers, Sequences, FiniteSets

VARIABLES
    script,        \* which of the five scripts this run executes
    pc,            \* position of the run in the script
    browser,       \* "none" | "open" | "closed": the browser object of the run
    openSessions,  \* sessions launched and not yet closed by browser.close()
    closeCount,    \* number of executed browser.close() calls
    pending,       \* an exception is in flight through a finally block
    escaped,       \* an exception left the script's entry point
    errorsLogged,  \* number of "Error: ..." lines printed by except blocks
    stepsRun,      \* number of scenario steps attempted so far
    failedAt,      \* ordinal of the first scenario step that raised, 0 if none
    files,         \* screenshot files written by this run
    lastOp,        \* last browser / filesystem operation attempted
    prevOp,        \* the operation attempted before lastOp
    i,             \* verify_firewall_breach: 0-based loop index
    current_text,  \* verify_firewall_breach: last HUD text read
    keyPresses,    \* verify_firewall_breach: 'h' key presses sent
    toggleIns,     \* verify_firewall_breach: toggle_adventure() # Start calls done
    toggleOuts,    \* verify_firewall_breach: toggle_adventure() # End calls done
    hudReads,      \* verify_firewall_breach: score_el.inner_text() calls done
    matchedAt,     \* verify_firewall_breach: index of the first matching read, -1 if none
    targetShot,    \* verify_firewall_breach: "none" | "written" | "failed"
    errorShot,     \* verify_firewall_breach: "none" | "written" | "failed"
    listening,     \* verify_reels: the console listener is registered
    msgs,          \* verify_reels: the list the listener appends to
    pageLog,       \* verify_reels: console messages emitted by the page, in order
    printed,       \* verify_reels: messages printed by the "Check logs" loop
    logAtPrint,    \* verify_reels: pageLog at the moment the loop printed
    printedDone,   \* verify_reels: the "Check logs" loop has run
    startVisible,  \* verify_reels: "unchecked" | "yes" | "no"
    clicked        \* verify_reels: page.click("#start-btn") succeeded

ctl == <<script, pc, browser, openSessions, closeCount, pending, escaped,
         errorsLogged, stepsRun, failedAt, files, lastOp, prevOp>>
fbv == <<i, current_text, keyPresses, toggleIns, toggleOuts, hudReads,
         matchedAt, targetShot, errorShot>>
rlv == <<listening, msgs, pageLog, printed, logAtPrint, printedDone,
         startVisible, clicked>>
vars == <<ctl, fbv, rlv>>

Scripts == {"verify_slot", "verify_game", "verify_lcd", "verify_reels",
            "verify_firewall_breach"}

\* Bound on the console messages the page emits in one verify_reels run.
MaxMsgs == 3

\* Texts of the console messages the page may emit.
ConsoleTexts == {"reels ready", "warn: shader"}

----------------------------------------------------------------------------
\* Control-flow helpers shared by the scripts.

\* A scenario step is attempted; it returns (ok) or raises.
Step(op, ok, okPc, failPc) ==
    /\ stepsRun' = stepsRun + 1
    /\ prevOp' = lastOp
    /\ lastOp' = op
    /\ pc' = IF ok THEN okPc ELSE failPc
    /\ failedAt' = IF ~ok /\ failedAt = 0 THEN stepsRun + 1 ELSE failedAt

\* browser = p.chromium.launch(headless=True); page = browser.new_page()
Launch(nextPc) ==
    /\ browser = "none"
    /\ browser' = "open"
    /\ openSessions' = openSessions + 1
    /\ pc' = nextPc
    /\ UNCHANGED <<script, closeCount, pending, escaped, errorsLogged,
                   stepsRun, failedAt, files, lastOp, prevOp, fbv, rlv>>

\* browser.close()
Close(nextPc) ==
    /\ browser' = "closed"
    /\ openSessions' = IF browser = "open" THEN openSessions - 1 ELSE openSessions
    /\ closeCount' = closeCount + 1
    /\ prevOp' = lastOp
    /\ lastOp' = "close"
    /\ pc' = nextPc

\* An exception no except clause caught leaves the with block and the script.
Uncaught ==
    /\ escaped' = TRUE
    /\ pending' = FALSE
    /\ pc' = "exit"
    /\ UNCHANGED <<script, browser, openSessions, closeCount, errorsLogged,
                   stepsRun, failedAt, files, lastOp, prevOp, fbv, rlv>>

----------------------------------------------------------------------------
\* verify_slot.py

S_Launch ==
    /\ pc = "slot_launch"
    /\ Launch("slot_goto")

\* page.goto(...); time.sleep(5)
S_Goto ==
    /\ pc = "slot_goto"
    /\ \E ok \in BOOLEAN : Step("goto", ok, "slot_shot", "slot_uncaught")
    /\ UNCHANGED <<script, browser, openSessions, closeCount, pending, escaped,
                   errorsLogged, files, fbv, rlv>>

\* page.screenshot(path="verification/slot_idle.png")
S_Screenshot ==
    /\ pc = "slot_shot"
    /\ \E ok \in BOOLEAN :
          /\ Step("screenshot", ok, "slot_close", "slot_uncaught")
          /\ files' = IF ok THEN files \cup {"verification/slot_idle.png"} ELSE files
    /\ UNCHANGED <<script, browser, openSessions, closeCount, pending, escaped,
                   errorsLogged, fbv, rlv>>

\* run() returning without the browser.close() of line 18
S_CloseMissing ==
    /\ pc = "slot_close"
    /\ pc' = "exit"
    /\ UNCHANGED <<script, browser, openSessions, closeCount, pending, escaped,
                   errorsLogged, stepsRun, failedAt, files, lastOp, prevOp,
                   fbv, rlv>>

S_Close ==
    /\ pc = "slot_close"
    /\ Close("exit")
    /\ UNCHANGED <<script, pending, escaped, errorsLogged, stepsRun, failedAt,
                   files, fbv, rlv>>

\* run() has no try: the exception leaves run(playwright) and the with block.
S_Uncaught ==
    /\ pc = "slot_uncaught"
    /\ Uncaught

----------------------------------------------------------------------------
\* verify_game.py

G_Launch ==
    /\ pc = "game_launch"
    /\ Launch("game_goto")

G_Goto ==
    /\ pc = "game_goto"
    /\ \E ok \in BOOLEAN : Step("goto", ok, "game_wait_sel", "game_except")
    /\ UNCHANGED <<script, browser, openSessions, closeCount, pending, escaped,
                   errorsLogged, files, fbv, rlv>>

\* page.wait_for_selector("canvas", timeout=30000)
G_WaitSelector ==
    /\ pc = "game_wait_sel"
    /\ \E ok \in BOOLEAN :
          Step("wait_for_selector", ok, "game_wait_timeout", "game_except")
    /\ UNCHANGED <<script, browser, openSessions, closeCount, pending, escaped,
                   errorsLogged, files, fbv, rlv>>

\* page.wait_for_timeout(5000)
G_WaitTimeout ==
    /\ pc = "game_wait_timeout"
    /\ \E ok \in BOOLEAN : Step("wait_for_timeout", ok, "game_shot", "game_except")
    /\ UNCHANGED <<script, browser, openSessions, closeCount, pending, escaped,
                   errorsLogged, files, fbv, rlv>>

\* page.screenshot(path="verification/idle_state.png"); print("Screenshot taken")
G_Screenshot ==
    /\ pc = "game_shot"
    /\ \E ok \in BOOLEAN :
          /\ Step("screenshot", ok, "game_finally", "game_except")
          /\ files' = IF ok THEN files \cup {"verification/idle_state.png"} ELSE files
    /\ UNCHANGED <<script, browser, openSessions, closeCount, pending, escaped,
                   errorsLogged, fbv, rlv>>

\* except Exception as e: print(f"Error: {e}")
G_Except ==
    /\ pc = "game_except"
    /\ errorsLogged' = errorsLogged + 1
    /\ pc' = "game_finally"
    /\ UNCHANGED <<script, browser, openSessions, closeCount, pending, escaped,
                   stepsRun, failedAt, files, lastOp, prevOp, fbv, rlv>>

\* finally: browser.close()
G_Finally ==
    /\ pc = "game_finally"
    /\ Close("exit")
    /\ UNCHANGED <<script, pending, escaped, errorsLogged, stepsRun, failedAt,
                   files, fbv, rlv>>

----------------------------------------------------------------------------
\* verify_lcd.py

\* launch, new_page, set_viewport_size
L_Launch ==
    /\ pc = "lcd_launch"
    /\ Launch("lcd_goto")

\* page.goto(...); time.sleep(5)  -- outside every try block
L_Goto ==
    /\ pc = "lcd_goto"
    /\ \E ok \in BOOLEAN : Step("goto", ok, "lcd_wait_sel", "lcd_uncaught")
    /\ UNCHANGED <<script, browser, openSessions, closeCount, pending, escaped,
                   errorsLogged, files, fbv, rlv>>

\* try: page.wait_for_selector("#start-btn", state="visible", timeout=10000)
L_WaitSelector ==
    /\ pc = "lcd_wait_sel"
    /\ \E ok \in BOOLEAN :
          Step("wait_for_selector", ok, "lcd_click", "lcd_inner_except")
    /\ UNCHANGED <<script, browser, openSessions, closeCount, pending, escaped,
                   errorsLogged, files, fbv, rlv>>

\* page.click("#start-btn", force=True); print("Clicked Start Game.")
L_Click ==
    /\ pc = "lcd_click"
    /\ \E ok \in BOOLEAN : Step("click", ok, "lcd_makedirs", "lcd_inner_except")
    /\ UNCHANGED <<script, browser, openSessions, closeCount, pending, escaped,
                   errorsLogged, files, fbv, rlv>>

\* except Exception as e: print(f"Error clicking start: {e}")
\* and control falls through to the statements after the try.
L_InnerExcept ==
    /\ pc = "lcd_inner_except"
    /\ errorsLogged' = errorsLogged + 1
    /\ pc' = "lcd_makedirs"
    /\ UNCHANGED <<script, browser, openSessions, closeCount, pending, escaped,
                   stepsRun, failedAt, files, lastOp, prevOp, fbv, rlv>>

\* time.sleep(3); os.makedirs("verification", exist_ok=True)
L_Makedirs ==
    /\ pc = "lcd_makedirs"
    /\ \E ok \in BOOLEAN : Step("makedirs", ok, "lcd_shot", "lcd_uncaught")
    /\ UNCHANGED <<script, browser, openSessions, closeCount, pending, escaped,
                   errorsLogged, files, fbv, rlv>>

\* page.screenshot(path="verification/lcd_verification_v3.png")
L_Screenshot ==
    /\ pc = "lcd_shot"
    /\ \E ok \in BOOLEAN :
          /\ Step("screenshot", ok, "lcd_close", "lcd_uncaught")
          /\ files' = IF ok THEN files \cup {"verification/lcd_verification_v3.png"}
                      ELSE files
    /\ UNCHANGED <<script, browser, openSessions, closeCount, pending, escaped,
                   errorsLogged, fbv, rlv>>

\* browser.close(); print("Verification complete.")
L_Close ==
    /\ pc = "lcd_close"
    /\ Close("exit")
    /\ UNCHANGED <<script, pending, escaped, errorsLogged, stepsRun, failedAt,
                   files, fbv, rlv>>

\* an exception outside the inner try leaves verify_lcd() and the script
L_Uncaught ==
    /\ pc = "lcd_uncaught"
    /\ Uncaught

----------------------------------------------------------------------------
\* verify_reels.py

\* a listener that inserts at the front: msgs.insert(0, msg.text)
OnConsolePrepend(ms, m) == <<m>> \o ms

\* lambda msg: msgs.append(msg.text)
OnConsole(ms, m) == Append(ms, m)

\* The page emits console message m; a registered listener receives it.
Emit(m) ==
    /\ pageLog' = Append(pageLog, m)
    /\ msgs' = IF listening THEN OnConsole(msgs, m) ELSE msgs

R_Launch ==
    /\ pc = "reels_launch"
    /\ Launch("reels_listen")

\* msgs = []; page.on("console", ...)
R_Listen ==
    /\ pc = "reels_listen"
    /\ listening' = TRUE
    /\ msgs' = <<>>
    /\ pc' = "reels_goto"
    /\ UNCHANGED <<script, browser, openSessions, closeCount, pending, escaped,
                   errorsLogged, stepsRun, failedAt, files, lastOp, prevOp, fbv,
                   pageLog, printed, logAtPrint, printedDone, startVisible, clicked>>

\* page.goto(...): the page may log while it loads
R_Goto ==
    /\ pc = "reels_goto"
    /\ \E ok \in BOOLEAN : Step("goto", ok, "reels_visible", "reels_except")
    /\ \/ UNCHANGED <<pageLog, msgs>>
       \/ \E m \in ConsoleTexts : Len(pageLog) < MaxMsgs /\ Emit(m)
    /\ UNCHANGED <<script, browser, openSessions, closeCount, pending, escaped,
                   errorsLogged, files, fbv, listening, printed, logAtPrint,
                   printedDone, startVisible, clicked>>

\* the page logs between two statements of the script
R_PageConsole ==
    /\ pc \in {"reels_visible", "reels_click", "reels_wait", "reels_print",
               "reels_shot", "reels_except", "reels_finally"}
    /\ Len(pageLog) < MaxMsgs
    /\ \E m \in ConsoleTexts : Emit(m)
    /\ UNCHANGED <<ctl, fbv, listening, printed, logAtPrint, printedDone,
                   startVisible, clicked>>

\* if page.locator("#start-btn").is_visible():
R_IsVisible ==
    /\ pc = "reels_visible"
    /\ \E ok \in BOOLEAN, vis \in BOOLEAN :
          /\ Step("is_visible", ok,
                  IF vis THEN "reels_click" ELSE "reels_wait", "reels_except")
          /\ startVisible' = IF ~ok THEN startVisible
                             ELSE IF vis THEN "yes" ELSE "no"
    /\ UNCHANGED <<script, browser, openSessions, closeCount, pending, escaped,
                   errorsLogged, files, fbv, listening, msgs, pageLog, printed,
                   logAtPrint, printedDone, clicked>>

\* page.click("#start-btn")
R_Click ==
    /\ pc = "reels_click"
    /\ \E ok \in BOOLEAN :
          /\ Step("click", ok, "reels_wait", "reels_except")
          /\ clicked' = ok
    /\ UNCHANGED <<script, browser, openSessions, closeCount, pending, escaped,
                   errorsLogged, files, fbv, listening, msgs, pageLog, printed,
                   logAtPrint, printedDone, startVisible>>

\* page.wait_for_timeout(5000)
R_WaitTimeout ==
    /\ pc = "reels_wait"
    /\ \E ok \in BOOLEAN : Step("wait_for_timeout", ok, "reels_print", "reels_except")
    /\ UNCHANGED <<script, browser, openSessions, closeCount, pending, escaped,
                   errorsLogged, files, fbv, rlv>>

\* print("Console logs:"); for m in msgs: print(m)
R_PrintLogs ==
    /\ pc = "reels_print"
    /\ printed' = msgs
    /\ logAtPrint' = pageLog
    /\ printedDone' = TRUE
    /\ pc' = "reels_shot"
    /\ UNCHANGED <<script, browser, openSessions, closeCount, pending, escaped,
                   errorsLogged, stepsRun, failedAt, files, lastOp, prevOp, fbv,
                   listening, msgs, pageLog, startVisible, clicked>>

\* page.screenshot(path="verification/reels.png")
R_Screenshot ==
    /\ pc = "reels_shot"
    /\ \E ok \in BOOLEAN :
          /\ Step("screenshot", ok, "reels_finally", "reels_except")
          /\ files' = IF ok THEN files \cup {"verification/reels.png"} ELSE files
    /\ UNCHANGED <<script, browser, openSessions, closeCount, pending, escaped,
                   errorsLogged, fbv, rlv>>

\* except Exception as e: print(f"Error: {e}")
R_Except ==
    /\ pc = "reels_except"
    /\ errorsLogged' = errorsLogged + 1
    /\ pc' = "reels_finally"
    /\ UNCHANGED <<script, browser, openSessions, closeCount, pending, escaped,
                   stepsRun, failedAt, files, lastOp, prevOp, fbv, rlv>>

\* finally: browser.close()
R_Finally ==
    /\ pc = "reels_finally"
    /\ Close("exit")
    /\ UNCHANGED <<script, pending, escaped, errorsLogged, stepsRun, failedAt,
                   files, fbv, rlv>>

----------------------------------------------------------------------------
\* verify_firewall_breach.py

tracks ==
    << "NEON HELIX", "CYBER CORE", "QUANTUM GRID", "SINGULARITY WELL",
       "GLITCH SPIRE", "RETRO WAVE HILLS", "CHRONO CORE", "HYPER DRIFT",
       "PACHINKO SPIRE", "ORBITAL JUNKYARD", "FIREWALL BREACH" >>

N == Len(tracks)

\* Strings the script inspects are sequences of characters.
\* "FIREWALL BREACH", the literal of the membership test
TargetLabel ==
    <<"F","I","R","E","W","A","L","L"," ","B","R","E","A","C","H">>

\* "0"
HudScore ==
    <<"0">>

\* "NEON HELIX"
HudHelix ==
    <<"N","E","O","N"," ","H","E","L","I","X">>

\* "FIREWALL BREACH"
HudTarget ==
    <<"F","I","R","E","W","A","L","L"," ","B","R","E","A","C","H">>

\* "TRACK: FIREWALL BREACH!"
HudTargetLong ==
    <<"T","R","A","C","K",":"," ","F","I","R","E","W","A","L","L"," ","B","R","E","A","C","H","!">>

\* "firewall breach"
HudLower ==
    <<"f","i","r","e","w","a","l","l"," ","b","r","e","a","c","h">>

\* "FIREWALL_BREACH"
HudUnderscore ==
    <<"F","I","R","E","W","A","L","L","_","B","R","E","A","C","H">>

\* "FIREWALL"
HudHalf ==
    <<"F","I","R","E","W","A","L","L">>

\* "BREACH FIREWALL"
HudSwapped ==
    <<"B","R","E","A","C","H"," ","F","I","R","E","W","A","L","L">>

\* What score_el.inner_text() may return: the page is outside the repository,
\* so every read takes any of these texts.
HudTexts == {HudScore, HudHelix, HudTarget, HudTargetLong, HudLower,
             HudUnderscore, HudHalf, HudSwapped}

\* the membership test with its operands swapped: current_text in "FIREWALL BREACH"
ContainsSwapped(text, label) ==
    \E k \in 0..(Len(label) - Len(text)) :
        SubSeq(label, k + 1, k + Len(text)) = text

\* label in text  (Python substring test)
Contains(text, label) ==
    \E k \in 0..(Len(text) - Len(label)) :
        SubSeq(text, k + 1, k + Len(label)) = label

\* the match branch without its return: the loop goes on to the toggle-out
AfterHudReadNoReturn(t) == "fb_toggle_out"

\* if "FIREWALL BREACH" in current_text: ... return  /  else fall to the toggle-out
AfterHudRead(t) ==
    IF Contains(t, TargetLabel) THEN "fb_target_shot" ELSE "fb_toggle_out"

\* a loop that steps over every other track
NextIndexSkip(k) == k + 2

\* for i, track_name in enumerate(tracks): the index of the next iteration
NextIndex(k) == k + 1

\* launch, new_page, set_viewport_size
F_Launch ==
    /\ pc = "fb_launch"
    /\ Launch("fb_goto")

\* page.goto("http://localhost:3000")
F_Goto ==
    /\ pc = "fb_goto"
    /\ \E ok \in BOOLEAN : Step("goto", ok, "fb_wait_sel", "fb_except")
    /\ UNCHANGED <<script, browser, openSessions, closeCount, pending, escaped,
                   errorsLogged, files, fbv, rlv>>

\* page.wait_for_selector("#start-btn")
F_WaitSelector ==
    /\ pc = "fb_wait_sel"
    /\ \E ok \in BOOLEAN : Step("wait_for_selector", ok, "fb_click", "fb_except")
    /\ UNCHANGED <<script, browser, openSessions, closeCount, pending, escaped,
                   errorsLogged, files, fbv, rlv>>

\* page.click("#start-btn"); time.sleep(2); first iteration of the for loop
F_Click ==
    /\ pc = "fb_click"
    /\ \E ok \in BOOLEAN :
          Step("click", ok, IF 0 < N THEN "fb_toggle_in" ELSE "fb_finally",
               "fb_except")
    /\ i' = 0
    /\ UNCHANGED <<script, browser, openSessions, closeCount, pending, escaped,
                   errorsLogged, files, current_text, keyPresses, toggleIns,
                   toggleOuts, hudReads, matchedAt, targetShot, errorShot, rlv>>

\* toggle_adventure() # Start; time.sleep(1.0)
F_ToggleIn ==
    /\ pc = "fb_toggle_in"
    /\ \E ok \in BOOLEAN :
          /\ Step("press_h", ok, "fb_read", "fb_except")
          /\ keyPresses' = IF ok THEN keyPresses + 1 ELSE keyPresses
          /\ toggleIns' = IF ok THEN toggleIns + 1 ELSE toggleIns
    /\ UNCHANGED <<script, browser, openSessions, closeCount, pending, escaped,
                   errorsLogged, files, i, current_text, toggleOuts, hudReads,
                   matchedAt, targetShot, errorShot, rlv>>

\* current_text = score_el.inner_text(); if "FIREWALL BREACH" in current_text:
F_ReadHud ==
    /\ pc = "fb_read"
    /\ \E ok \in BOOLEAN, t \in HudTexts :
          /\ Step("inner_text", ok, AfterHudRead(t), "fb_except")
          /\ current_text' = IF ok THEN t ELSE current_text
          /\ hudReads' = IF ok THEN hudReads + 1 ELSE hudReads
          /\ matchedAt' = IF ok /\ Contains(t, TargetLabel) /\ matchedAt = -1
                          THEN i ELSE matchedAt
    /\ UNCHANGED <<script, browser, openSessions, closeCount, pending, escaped,
                   errorsLogged, files, i, keyPresses, toggleIns, toggleOuts,
                   targetShot, errorShot, rlv>>

\* the match branch without its return: a later statement raises after the
\* screenshot was written
F_TargetShotThenRaise ==
    /\ pc = "fb_target_shot"
    /\ Step("screenshot_target", TRUE, "fb_except", "fb_except")
    /\ targetShot' = "written"
    /\ files' = files \cup {"verification/verification.png"}
    /\ UNCHANGED <<script, browser, openSessions, closeCount, pending, escaped,
                   errorsLogged, i, current_text, keyPresses, toggleIns,
                   toggleOuts, hudReads, matchedAt, errorShot, rlv>>

\* time.sleep(5); page.screenshot(path="verification/verification.png"); return
F_TargetShot ==
    /\ pc = "fb_target_shot"
    /\ \E ok \in BOOLEAN :
          /\ Step("screenshot_target", ok, "fb_finally", "fb_except")
          /\ targetShot' = IF ok THEN "written" ELSE "failed"
          /\ files' = IF ok THEN files \cup {"verification/verification.png"}
                      ELSE files
    /\ UNCHANGED <<script, browser, openSessions, closeCount, pending, escaped,
                   errorsLogged, i, current_text, keyPresses, toggleIns,
                   toggleOuts, hudReads, matchedAt, errorShot, rlv>>

\* toggle_adventure() # End; time.sleep(1.0); next iteration or fall off the loop
F_ToggleOut ==
    /\ pc = "fb_toggle_out"
    /\ \E ok \in BOOLEAN :
          /\ Step("press_h", ok,
                  IF NextIndex(i) < N THEN "fb_toggle_in" ELSE "fb_finally",
                  "fb_except")
          /\ keyPresses' = IF ok THEN keyPresses + 1 ELSE keyPresses
          /\ toggleOuts' = IF ok THEN toggleOuts + 1 ELSE toggleOuts
          /\ i' = IF ok THEN NextIndex(i) ELSE i
    /\ UNCHANGED <<script, browser, openSessions, closeCount, pending, escaped,
                   errorsLogged, files, current_text, toggleIns, hudReads,
                   matchedAt, targetShot, errorShot, rlv>>

\* except Exception as e: print(f"Error: {e}"); page.screenshot(path=".../error.png")
\* A raise inside the handler stays in flight while the finally block runs.
F_Except ==
    /\ pc = "fb_except"
    /\ errorsLogged' = errorsLogged + 1
    /\ prevOp' = lastOp
    /\ lastOp' = "screenshot_error"
    /\ pc' = "fb_finally"
    /\ \E ok \in BOOLEAN :
          /\ errorShot' = IF ok THEN "written" ELSE "failed"
          /\ files' = IF ok THEN files \cup {"/home/jules/verification/error.png"}
                      ELSE files
          /\ pending' = ~ok
    /\ UNCHANGED <<script, browser, openSessions, closeCount, escaped, stepsRun,
                   failedAt, i, current_text, keyPresses, toggleIns, toggleOuts,
                   hudReads, matchedAt, targetShot, rlv>>

\* finally: browser.close(); a pending exception then continues to propagate
F_Finally ==
    /\ pc = "fb_finally"
    /\ Close(IF pending THEN "fb_uncaught" ELSE "exit")
    /\ UNCHANGED <<script, pending, escaped, errorsLogged, stepsRun, failedAt,
                   files, fbv, rlv>>

\* the exception raised inside the except block leaves the with block
F_Uncaught ==
    /\ pc = "fb_uncaught"
    /\ Uncaught

----------------------------------------------------------------------------
Init ==
    /\ script \in Scripts
    /\ pc = CASE script = "verify_slot" -> "slot_launch"
              [] script = "verify_game" -> "game_launch"
              [] script = "verify_lcd" -> "lcd_launch"
              [] script = "verify_reels" -> "reels_launch"
              [] OTHER -> "fb_launch"
    /\ browser = "none"
    /\ openSessions = 0
    /\ closeCount = 0
    /\ pending = FALSE
    /\ escaped = FALSE
    /\ errorsLogged = 0
    /\ stepsRun = 0
    /\ failedAt = 0
    /\ files = {}
    /\ lastOp = "none"
    /\ prevOp = "none"
    /\ i = 0
    /\ current_text = <<>>
    /\ keyPresses = 0
    /\ toggleIns = 0
    /\ toggleOuts = 0
    /\ hudReads = 0
    /\ matchedAt = -1
    /\ targetShot = "none"
    /\ errorShot = "none"
    /\ listening = FALSE
    /\ msgs = <<>>
    /\ pageLog = <<>>
    /\ printed = <<>>
    /\ logAtPrint = <<>>
    /\ printedDone = FALSE
    /\ startVisible = "unchecked"
    /\ clicked = FALSE

Next ==
    \/ S_Launch \/ S_Goto \/ S_Screenshot \/ S_Close \/ S_Uncaught
    \/ G_Launch \/ G_Goto \/ G_WaitSelector \/ G_WaitTimeout \/ G_Screenshot
    \/ G_Except \/ G_Finally
    \/ L_Launch \/ L_Goto \/ L_WaitSelector \/ L_Click \/ L_InnerExcept
    \/ L_Makedirs \/ L_Screenshot \/ L_Close \/ L_Uncaught
    \/ R_Launch \/ R_Listen \/ R_Goto \/ R_PageConsole \/ R_IsVisible
    \/ R_Click \/ R_WaitTimeout \/ R_PrintLogs \/ R_Screenshot \/ R_Except
    \/ R_Finally
    \/ F_Launch \/ F_Goto \/ F_WaitSelector \/ F_Click \/ F_ToggleIn
    \/ F_ReadHud \/ F_TargetShot \/ F_ToggleOut \/ F_Except \/ F_Finally
    \/ F_Uncaught

Spec == Init /\ [][Next]_vars

----------------------------------------------------------------------------
\* Properties

TargetPng == "verification/verification.png"
ErrorPng == "/home/jules/verification/error.png"

\* The HUD texts of HudTexts that contain "FIREWALL BREACH", listed by hand.
TargetTexts == {HudTarget, HudTargetLong}

TypeOK ==
    /\ script \in Scripts
    /\ browser \in {"none", "open", "closed"}
    /\ openSessions \in 0..1
    /\ closeCount \in Nat
    /\ pending \in BOOLEAN
    /\ escaped \in BOOLEAN
    /\ i \in 0..N
    /\ matchedAt \in -1..(N - 1)
    /\ current_text \in HudTexts \cup {<<>>}
    /\ Len(pageLog) <= MaxMsgs

\* C1: in every script, when a step raises, browser.close() is still executed
\* before the run ends, and a run never has more than one open session.
C1_SessionAlwaysClosed ==
    /\ openSessions <= 1
    /\ (pc = "exit" /\ failedAt > 0) => (closeCount >= 1 /\ browser = "closed")

\* C2: when step k raises, no later scenario step executes and the session is
\* closed exactly once, in every script.
C2_FailureAbortsRun ==
    failedAt > 0 =>
        /\ stepsRun = failedAt
        /\ (pc = "exit" => closeCount = 1)

\* C3 as stated: when the first matching HUD read is at index i, i+1 complete
\* toggle-in/toggle-out pairs have occurred.
C3_PairsAsStated ==
    matchedAt >= 0 =>
        /\ toggleIns = matchedAt + 1
        /\ toggleOuts = matchedAt + 1

\* C3 amended: when the first matching HUD read is at index i, exactly i+1
\* toggle-ins and i toggle-outs (2i+1 key presses) have occurred, and no key
\* press is sent afterwards.
C3_TogglesAtMatch ==
    matchedAt >= 0 =>
        /\ i = matchedAt
        /\ toggleIns = matchedAt + 1
        /\ toggleOuts = matchedAt
        /\ keyPresses = 2 * matchedAt + 1

C3_Witness ==
    /\ script = "verify_firewall_breach"
    /\ pc = "exit"
    /\ matchedAt = 3
    /\ keyPresses = 7
    /\ targetShot = "written"

C5_NoExceptionEscapes ==
    /\ ~escaped
    /\ (pc = "exit" /\ failedAt > 0) => errorsLogged >= 1

\* C6: in verify_firewall_breach a failing failure-screenshot does not
\* propagate out of the script, and the session is closed exactly once.
C6_HandlerFailureSilent ==
    (script = "verify_firewall_breach" /\ errorShot = "failed") =>
        /\ ~escaped
        /\ (pc = "exit" => closeCount = 1)

\* C7: in every script, a run whose steps all succeed closes the session
\* exactly once, and the close is the last operation of the run.
C7_SuccessClosesOnceLast ==
    failedAt = 0 =>
        /\ closeCount <= 1
        /\ (browser = "closed" <=> closeCount = 1)
        /\ (closeCount = 1 => lastOp = "close")
        /\ (pc = "exit" => (closeCount = 1 /\ ~escaped))

C7_Witness ==
    /\ script = "verify_firewall_breach"
    /\ pc = "exit"
    /\ failedAt = 0
    /\ matchedAt = 0
    /\ targetShot = "written"
    /\ closeCount = 1
    /\ lastOp = "close"

C9_NotBothScreenshots ==
    script = "verify_firewall_breach" =>
        /\ ~(TargetPng \in files /\ ErrorPng \in files)
        /\ (errorShot # "none" => failedAt > 0)
        /\ (targetShot = "written" =>
              (pc \in {"fb_finally", "exit"} /\ ~pending /\ errorShot = "none"
               /\ failedAt = 0))
        /\ (lastOp = "screenshot_error" => (closeCount = 0 /\ browser = "open"))
        /\ (errorShot # "none" /\ closeCount > 0 =>
              (lastOp = "close" /\ prevOp = "screenshot_error"))

C9_Witness ==
    /\ script = "verify_firewall_breach"
    /\ pc = "exit"
    /\ targetShot = "failed"
    /\ errorShot = "written"
    /\ ErrorPng \in files
    /\ closeCount = 1

====
